---- MODULE Spec2Model ----
(***************************************************************************)
(* ExpiringDict (src/expiringdict/__init__.py): an OrderedDict whose       *)
(* values are (value, created_time) pairs, with a maximum entry age and a  *)
(* maximum length.  The ordered mapping is the sequence od of entries      *)
(* [key, val, ts] in OrderedDict order (oldest position first).            *)
(***************************************************************************)
EXTENDS Integers, Sequences, FiniteSets, TLC

VARIABLES od, now, max_len, max_age, ret, lastSet, built, th, lock, fk

vars == <<od, now, max_len, max_age, ret, lastSet, built, th, lock, fk>>

----------------------------------------------------------------------------
(* Bounds of the model *)

MaxTime == 2

Keys == {"a", "b", "c"}

Values == {1, 2}

\* Python's None as a value / default result
NoneVal == 0

\* max_len is None (unbounded) or an integer
NoLimit == <<>>

Limit(n) == <<n>>

\* the (max_len, max_age_seconds) pairs the constructor is called with;
\* with max_age_seconds = 0 every entry is expired as soon as it is stored
Configs == { <<NoLimit, 2>>, <<Limit(2), 2>>, <<Limit(2), 0>> }

\* initial batches handed to the constructor (lists of (key, value) pairs)
Batches == { <<>>, << <<"a", 1>>, <<"b", 2>>, <<"c", 1>> >> }

----------------------------------------------------------------------------
(* The underlying OrderedDict *)

Entry(k, v, t) == [key |-> k, val |-> v, ts |-> t]

KeysOf(d) == [i \in 1..Len(d) |-> d[i].key]

\* position of k in the ordered mapping, 0 when k is not physically present
IndexOf(d, k) == IF \E i \in 1..Len(d) : d[i].key = k
                 THEN CHOOSE i \in 1..Len(d) : d[i].key = k
                 ELSE 0

Has(d, k) == IndexOf(d, k) # 0

\* OrderedDict.__getitem__ on a present key: the stored (value, created) pair
Item(d, k) == d[IndexOf(d, k)]

\* OrderedDict.__delitem__
DelItem(d, k) == SelectSeq(d, LAMBDA e : e.key # k)

\* faulty variant of OdSetItem: an existing key gets the new value and
\* keeps its old timestamp
OdSetItemKeepsTs(d, k, v, t) ==
    IF Has(d, k)
    THEN [d EXCEPT ![IndexOf(d, k)] = Entry(k, v, Item(d, k).ts)]
    ELSE Append(d, Entry(k, v, t))

\* OrderedDict.__setitem__: an existing key keeps its position, a new key
\* is appended at the newest position
OdSetItem(d, k, v, t) ==
    IF Has(d, k)
    THEN [d EXCEPT ![IndexOf(d, k)] = Entry(k, v, t)]
    ELSE Append(d, Entry(k, v, t))

\* faulty variant of PopOldest: popitem() with last=True removes the newest
\* entry
PopNewest(d) == SubSeq(d, 1, Len(d) - 1)

\* popitem(last=False): removes the entry at the oldest position
PopOldest(d) == Tail(d)

----------------------------------------------------------------------------
(* The methods of ExpiringDict, as functions of the mapping d and of the   *)
(* value t that time.time() returns during the call                        *)

\* faulty variant of Fresh: an entry whose age equals max_age still counts
\* as fresh
FreshInclusive(age) == age <= max_age

\* the expiration test of __contains__ and __getitem__
Fresh(age) == age < max_age

\* faulty variant of GetItem: __getitem__ without the `del self[key]` of its
\* else branch
GetItemKeepsExpired(d, k, t) ==
    IF Has(d, k) /\ t - Item(d, k).ts < max_age
    THEN [raised |-> FALSE, val |-> Item(d, k).val, age |-> t - Item(d, k).ts,
          d |-> d]
    ELSE [raised |-> TRUE, val |-> NoneVal, age |-> 0, d |-> d]

\* __getitem__(key, with_age): raises KeyError for an absent key; returns
\* the value (and the age) of a fresh entry; deletes an expired entry and
\* raises KeyError
GetItem(d, k, t) ==
    IF ~Has(d, k)
    THEN [raised |-> TRUE, val |-> NoneVal, age |-> 0, d |-> d]
    ELSE LET item == Item(d, k)
             item_age == t - item.ts
         IN  IF Fresh(item_age)
             THEN [raised |-> FALSE, val |-> item.val, age |-> item_age, d |-> d]
             ELSE [raised |-> TRUE, val |-> NoneVal, age |-> 0,
                   d |-> DelItem(d, k)]

\* get(key, default, with_age): the KeyError of __getitem__ becomes the
\* default (with the age None: hasAge is FALSE)
GetFn(d, k, default, t) ==
    LET r == GetItem(d, k, t)
    IN  IF r.raised
        THEN [found |-> FALSE, val |-> default, hasAge |-> FALSE, age |-> 0,
              d |-> r.d]
        ELSE [found |-> TRUE, val |-> r.val, hasAge |-> TRUE, age |-> r.age,
              d |-> r.d]

\* faulty variant of ContainsFn: __contains__ without the `del self[key]` of
\* its else branch
ContainsKeepsExpired(d, k, t) ==
    [res |-> Has(d, k) /\ t - Item(d, k).ts < max_age, d |-> d]

\* __contains__
ContainsFn(d, k, t) ==
    IF ~Has(d, k)
    THEN [res |-> FALSE, d |-> d]
    ELSE IF Fresh(t - Item(d, k).ts)
         THEN [res |-> TRUE, d |-> d]
         ELSE [res |-> FALSE, d |-> DelItem(d, k)]

\* the while loop of __setitem__: popitem(last=False) while len > max_len
RECURSIVE Evict(_, _)
Evict(d, n) == IF Len(d) > n THEN Evict(PopOldest(d), n) ELSE d

\* what __setitem__ leaves of d before it stores the new pair
AfterEviction(d) == IF max_len # NoLimit THEN Evict(d, max_len[1]) ELSE d

\* __setitem__
SetItem(d, k, v, t) == OdSetItem(AfterEviction(d), k, v, t)

\* faulty variant of PopFn: a pop that treats an expired entry as absent
PopChecksExpiry(d, k, default) ==
    IF Has(d, k) /\ now - Item(d, k).ts < max_age
    THEN [val |-> Item(d, k).val, d |-> DelItem(d, k)]
    ELSE [val |-> default, d |-> DelItem(d, k)]

\* pop(key, default)
PopFn(d, k, default) ==
    IF Has(d, k)
    THEN [val |-> Item(d, k).val, d |-> DelItem(d, k)]
    ELSE [val |-> default, d |-> d]

\* `if key_age:` is false for None and for an age of 0
Truthy(hasAge, age) == hasAge /\ age # 0

\* ttl(key): hasTtl FALSE is the result None
TtlFn(d, k, t) ==
    LET g == GetFn(d, k, NoneVal, t)
        key_ttl == max_age - g.age
    IN  IF Truthy(g.hasAge, g.age) /\ key_ttl > 0
        THEN [hasTtl |-> TRUE, ttl |-> key_ttl, d |-> g.d]
        ELSE [hasTtl |-> FALSE, ttl |-> 0, d |-> g.d]

\* faulty variant of ItemsLoop: the loop of items() without its try/except
\* ends at the first key whose self[key] raises
RECURSIVE ItemsLoopStops(_, _, _, _)
ItemsLoopStops(keys, d, r, t) ==
    IF keys = <<>>
    THEN [out |-> r, d |-> d]
    ELSE LET g == GetItem(d, Head(keys), t)
         IN  IF g.raised
             THEN [out |-> r, d |-> g.d]
             ELSE ItemsLoopStops(Tail(keys), g.d,
                                 Append(r, <<Head(keys), g.val>>), t)

\* the loop of items(): one self[key] per key of the list _safe_keys()
\* returned when the call started; a KeyError skips the key
RECURSIVE ItemsLoop(_, _, _, _)
ItemsLoop(keys, d, r, t) ==
    IF keys = <<>>
    THEN [out |-> r, d |-> d]
    ELSE LET g == GetItem(d, Head(keys), t)
         IN  ItemsLoop(Tail(keys), g.d,
                       IF g.raised THEN r ELSE Append(r, <<Head(keys), g.val>>),
                       t)

ItemsFn(d, t) == ItemsLoop(KeysOf(d), d, <<>>, t)

\* values(): the same loop, keeping the values only
ValuesFn(d, t) ==
    LET r == ItemsLoop(KeysOf(d), d, <<>>, t)
    IN  [out |-> [i \in 1..Len(r.out) |-> r.out[i][2]], d |-> r.d]

\* iteritems(), consumed to its end: `for k in self: yield (k, self[k])`.
\* self[k] is ExpiringDict.__getitem__, so the first expired entry is
\* deleted and its KeyError leaves the generator
RECURSIVE IterLoop(_, _, _, _)
IterLoop(keys, d, r, t) ==
    IF keys = <<>>
    THEN [raised |-> FALSE, out |-> r, d |-> d]
    ELSE LET g == GetItem(d, Head(keys), t)
         IN  IF g.raised
             THEN [raised |-> TRUE, out |-> r, d |-> g.d]
             ELSE IterLoop(Tail(keys), g.d, Append(r, <<Head(keys), g.val>>), t)

IterItemsFn(d, t) == IterLoop(KeysOf(d), d, <<>>, t)

\* itervalues(): `for k in self: yield self[k]`
IterValuesFn(d, t) ==
    LET r == IterLoop(KeysOf(d), d, <<>>, t)
    IN  [raised |-> r.raised, out |-> [i \in 1..Len(r.out) |-> r.out[i][2]],
         d |-> r.d]

\* iterkeys(): `for k in self: yield k`
IterKeysFn(d) == [raised |-> FALSE, out |-> KeysOf(d), d |-> d]

----------------------------------------------------------------------------
(* Construction *)

\* Python's s[-n:] for n >= 1
LastN(s, n) == IF n >= Len(s) THEN s ELSE SubSeq(s, Len(s) - n + 1, Len(s))

\* the list __init__ hands to OrderedDict.__init__, for a positional batch
\* and no further keyword arguments (kwargs is empty once max_age_seconds
\* and max_len are popped).  For max_len <= 0 the first branch slices the
\* empty kwargs.items(): an empty list under Python 2
InitArgs(batch, ml) ==
    IF ml # NoLimit
    THEN IF 0 >= ml[1] THEN <<>> ELSE LastN(batch, ml[1])
    ELSE batch

\* OrderedDict.__init__(self, args) stores each pair with self[key] = value,
\* that is with ExpiringDict.__setitem__
RECURSIVE InitLoop(_, _, _)
InitLoop(args, d, t) ==
    IF args = <<>> THEN d
    ELSE InitLoop(Tail(args), SetItem(d, Head(args)[1], Head(args)[2], t), t)

----------------------------------------------------------------------------
(* State: od is the mapping, now the clock, ret what the last call was and  *)
(* what it gave its caller (had: the key was physically present when the   *)
(* call started; removed: the keys the call took out of the mapping),       *)
(* lastSet the last __setitem__ call that no __setitem__ or pop call has   *)
(* followed.  built is how the map was built and with which arguments, th  *)
(* the position of each caller thread inside its call, lock the owner of   *)
(* self.lock, fk the keys fromkeys has still to store.  The calls below    *)
(* run one at a time, each from its start to its return.                   *)

\* the keys of d that are no longer physically present in d2
Gone(d, d2) == KeysOf(SelectSeq(d, LAMBDA e : ~Has(d2, e.key)))

NoSet == [key |-> "", val |-> NoneVal, ts |-> 0]

Ret(op, k, had, ok, raised, val, out, removed) ==
    [op |-> op, key |-> k, had |-> had, ok |-> ok, raised |-> raised,
     val |-> val, out |-> out, removed |-> removed,
     err |-> IF raised THEN "KeyError" ELSE ""]

\* the RLock is free
Free == 0

Threads == {1, 2}

\* a thread that is in no call: "idle" may start one, "off" never does
Local(pc) == [pc |-> pc, op |-> "", key |-> "", val |-> NoneVal,
              snap |-> <<>>, out |-> <<>>, len0 |-> 0, iters |-> 0]

\* a max_len or max_age_seconds argument: None, an int, or a value that is
\* no int (a float, a string)
NoneArg == [kind |-> "none", n |-> 0]

IntArg(n) == [kind |-> "int", n |-> n]

OtherArg == [kind |-> "other", n |-> 0]

ArgOf(ml) == IF ml = NoLimit THEN NoneArg ELSE IntArg(ml[1])

\* what was asked of the constructor: through ExpiringDict(...) ("init") or
\* through fromkeys, under Python py, with which max_len and
\* max_age_seconds, and the error it raised ("ok": none)
Built(how, py, ml, ma, err) ==
    [how |-> how, py |-> py, ml |-> ml, ma |-> ma, err |-> err]

\* a call that raised the error e
RetErr(r, e) == [r EXCEPT !.raised = TRUE, !.ok = FALSE, !.err = e]

Init ==
    /\ now = 0
    /\ \E c \in Configs : max_len = c[1] /\ max_age = c[2]
    /\ \E batch \in Batches :
          /\ od = InitLoop(InitArgs(batch, max_len), <<>>, 0)
          /\ ret = Ret("init", "", TRUE, TRUE, FALSE, NoneVal, batch, <<>>)
    /\ built = Built("init", 3, ArgOf(max_len), IntArg(max_age), "ok")
    /\ th = [t \in Threads |-> Local("off")]
    /\ lock = Free
    /\ fk = <<>>
    /\ lastSet = NoSet

\* time passes between two calls
Tick ==
    /\ now < MaxTime
    /\ now' = now + 1
    /\ ret' = Ret("tick", "", FALSE, TRUE, FALSE, NoneVal, <<>>, <<>>)
    /\ UNCHANGED <<od, max_len, max_age, lastSet, built, th, lock, fk>>

\* d[k] = v
Set(k, v) ==
    /\ od' = SetItem(od, k, v, now)
    /\ ret' = Ret("set", k, Has(od, k), TRUE, FALSE, v, <<>>,
                  Gone(od, AfterEviction(od)))
    /\ lastSet' = Entry(k, v, now)
    /\ UNCHANGED <<now, max_len, max_age, built, th, lock, fk>>

\* d.get(k, default)
Get(k, default) ==
    LET g == GetFn(od, k, default, now)
    IN  /\ od' = g.d
        /\ ret' = Ret("get", k, Has(od, k), g.found, FALSE, g.val, <<>>,
                      Gone(od, g.d))
        /\ UNCHANGED <<now, max_len, max_age, lastSet, built, th, lock, fk>>

\* k in d
Contains(k) ==
    LET c == ContainsFn(od, k, now)
    IN  /\ od' = c.d
        /\ ret' = Ret("contains", k, Has(od, k), c.res, FALSE, NoneVal, <<>>,
                      Gone(od, c.d))
        /\ UNCHANGED <<now, max_len, max_age, lastSet, built, th, lock, fk>>

\* d.pop(k, default)
Pop(k, default) ==
    LET r == PopFn(od, k, default)
    IN  /\ od' = r.d
        /\ ret' = Ret("pop", k, Has(od, k), Has(od, k), FALSE, r.val, <<>>,
                      Gone(od, r.d))
        /\ lastSet' = NoSet
        /\ UNCHANGED <<now, max_len, max_age, built, th, lock, fk>>

\* d.ttl(k)
Ttl(k) ==
    LET r == TtlFn(od, k, now)
    IN  /\ od' = r.d
        /\ ret' = Ret("ttl", k, Has(od, k), r.hasTtl, FALSE, r.ttl, <<>>,
                      Gone(od, r.d))
        /\ UNCHANGED <<now, max_len, max_age, lastSet, built, th, lock, fk>>

\* d.items()
Items ==
    LET r == ItemsFn(od, now)
    IN  /\ od' = r.d
        /\ ret' = Ret("items", "", FALSE, TRUE, FALSE, NoneVal, r.out,
                      Gone(od, r.d))
        /\ UNCHANGED <<now, max_len, max_age, lastSet, built, th, lock, fk>>

\* d.values()
ValuesOp ==
    LET r == ValuesFn(od, now)
    IN  /\ od' = r.d
        /\ ret' = Ret("values", "", FALSE, TRUE, FALSE, NoneVal, r.out,
                      Gone(od, r.d))
        /\ UNCHANGED <<now, max_len, max_age, lastSet, built, th, lock, fk>>

\* list(d.iteritems())
IterItems ==
    LET r == IterItemsFn(od, now)
    IN  /\ od' = r.d
        /\ ret' = Ret("iteritems", "", FALSE, ~r.raised, r.raised, NoneVal,
                      r.out, Gone(od, r.d))
        /\ UNCHANGED <<now, max_len, max_age, lastSet, built, th, lock, fk>>

\* list(d.itervalues())
IterValues ==
    LET r == IterValuesFn(od, now)
    IN  /\ od' = r.d
        /\ ret' = Ret("itervalues", "", FALSE, ~r.raised, r.raised, NoneVal,
                      r.out, Gone(od, r.d))
        /\ UNCHANGED <<now, max_len, max_age, lastSet, built, th, lock, fk>>

\* list(d.iterkeys())
IterKeys ==
    LET r == IterKeysFn(od)
    IN  /\ od' = r.d
        /\ ret' = Ret("iterkeys", "", FALSE, ~r.raised, r.raised, NoneVal,
                      r.out, Gone(od, r.d))
        /\ UNCHANGED <<now, max_len, max_age, lastSet, built, th, lock, fk>>

\* the default a caller passes to get and pop
Defaults == {9}

Next ==
    \/ Tick
    \/ \E k \in Keys, v \in Values : Set(k, v)
    \/ \E k \in Keys, default \in Defaults : Get(k, default)
    \/ \E k \in Keys : Contains(k)
    \/ \E k \in Keys, default \in Defaults : Pop(k, default)
    \/ \E k \in Keys : Ttl(k)
    \/ Items
    \/ ValuesOp
    \/ IterItems
    \/ IterValues
    \/ IterKeys

Spec == Init /\ [][Next]_vars

----------------------------------------------------------------------------
(* Construction with any arguments, under Python 2 and Python 3 *)

\* the error __init__ raises, "ok" if none: the three asserts, then the
\* slicing of kwargs.items() (a list under Python 2, a view that cannot be
\* subscripted under Python 3) when len(kwargs) = 0 >= max_len, else args[0]
\* of the positional arguments
InitError(py, hasBatch, ml, ma) ==
    IF ml.kind = "other" THEN "AssertionError"
    ELSE IF ma.kind # "int" THEN "AssertionError"
    ELSE IF ~(ma.n >= 0) THEN "AssertionError"
    ELSE IF ml.kind = "int" /\ 0 >= ml.n
         THEN IF py = 3 THEN "TypeError" ELSE "ok"
    ELSE IF ~hasBatch THEN "IndexError"
    ELSE "ok"

\* self.max_len of an argument that passed the asserts
LimitOf(ml) == IF ml.kind = "int" THEN Limit(ml.n) ELSE NoLimit

Pythons == {2, 3}

\* the max_len and max_age_seconds arguments of the constructor calls
LenArgs == {NoneArg, IntArg(-1), IntArg(0), IntArg(1), OtherArg}

AgeArgs == {OtherArg, IntArg(-1), IntArg(1)}

\* the keys and the value fromkeys is called with
FromKeysKeys == <<"a", "b">>

FromKeysValue == 1

\* ExpiringDict(batch, max_len=ml, max_age_seconds=ma), or with no
\* positional batch, or ExpiringDict.fromkeys(FromKeysKeys, FromKeysValue,
\* ma, ml), which calls the constructor with no batch and then sets the keys
InitBuild ==
    /\ now = 0
    /\ \E py \in Pythons, how \in {"init", "fromkeys"}, hasBatch \in BOOLEAN,
          batch \in Batches, ml \in LenArgs, ma \in AgeArgs :
          LET e == InitError(py, hasBatch, ml, ma)
          IN  /\ how = "fromkeys" => ~hasBatch
              /\ ~hasBatch => batch = <<>>
              /\ built = Built(how, py, ml, ma, e)
              /\ ret = IF e = "ok"
                       THEN Ret("init", "", hasBatch, TRUE, FALSE, NoneVal,
                                batch, <<>>)
                       ELSE RetErr(Ret("init", "", hasBatch, FALSE, TRUE,
                                       NoneVal, batch, <<>>), e)
              /\ max_len = IF e = "ok" THEN LimitOf(ml) ELSE NoLimit
              /\ max_age = IF e = "ok" THEN ma.n ELSE 0
              /\ od = IF e = "ok"
                      THEN InitLoop(InitArgs(batch, max_len), <<>>, 0)
                      ELSE <<>>
              /\ fk = IF e = "ok" /\ how = "fromkeys"
                      THEN FromKeysKeys ELSE <<>>
    /\ lastSet = NoSet
    /\ th = [t \in Threads |-> Local(IF t = 1 THEN "idle" ELSE "off")]
    /\ lock = Free

----------------------------------------------------------------------------
(* Calls of several threads, one step at a time.  A thread takes the RLock *)
(* where the method says "with self.lock" and gives it back when the       *)
(* method returns; __contains__ and the key snapshot of items and values   *)
(* take no lock.                                                           *)

\* the longest the model follows an eviction loop that does not end
MaxSpin == 2

\* the keys the threads call with
CKeys == {"a", "b"}

\* the values the threads set
CValues == {2}

\* the constructor returned a map, and thread t is in no call
Ready(t) == built.err = "ok" /\ th[t].pc = "idle"

Call(pc, op, k, v) == [Local(pc) EXCEPT !.op = op, !.key = k, !.val = v]

\* the condition of the while loop of __setitem__
MustEvictAtLimit(d) == max_len # NoLimit /\ Len(d) >= max_len[1]

MustEvict(d) == max_len # NoLimit /\ Len(d) > max_len[1]

\* self.popitem(last=False) inside try / except KeyError: pass
PopItem(d) == IF d = <<>> THEN d ELSE PopOldest(d)

\* time passes
TickC ==
    /\ now < MaxTime
    /\ now' = now + 1
    /\ ret' = Ret("tick", "", FALSE, TRUE, FALSE, NoneVal, <<>>, <<>>)
    /\ UNCHANGED <<od, max_len, max_age, lastSet, built, th, lock, fk>>

\* d[k] = v: with self.lock
SetAcquire(t, k, v) ==
    /\ Ready(t) /\ fk = <<>>
    /\ lock = Free
    /\ lock' = t
    /\ th' = [th EXCEPT ![t] = [Call("set_loop", "set", k, v)
                                 EXCEPT !.len0 = Len(od)]]
    /\ UNCHANGED <<od, now, max_len, max_age, ret, lastSet, built, fk>>

\* fromkeys: for key in iterable: self[key] = value
FromKeysSet(t) ==
    /\ Ready(t) /\ fk # <<>>
    /\ lock = Free
    /\ lock' = t
    /\ th' = [th EXCEPT ![t] = [Call("set_loop", "set", Head(fk), FromKeysValue)
                                 EXCEPT !.len0 = Len(od)]]
    /\ fk' = Tail(fk)
    /\ UNCHANGED <<od, now, max_len, max_age, ret, lastSet, built>>

\* the test of the while loop of __setitem__ finds len(self) > self.max_len
SetEvict(t) ==
    /\ th[t].pc = "set_loop"
    /\ MustEvict(od)
    /\ th[t].iters < MaxSpin
    /\ th' = [th EXCEPT ![t].pc = "set_pop"]
    /\ UNCHANGED <<od, now, max_len, max_age, ret, lastSet, built, lock, fk>>

\* the body of the loop: popitem, whatever the size has become since the test
SetPop(t) ==
    /\ th[t].pc = "set_pop"
    /\ od' = PopItem(od)
    /\ th' = [th EXCEPT ![t].pc = "set_loop", ![t].iters = @ + 1]
    /\ UNCHANGED <<now, max_len, max_age, ret, lastSet, built, lock, fk>>

\* the loop is over: OrderedDict.__setitem__(self, key, (value, time.time()))
\* and the lock is released
SetStore(t) ==
    /\ th[t].pc = "set_loop"
    /\ ~MustEvict(od)
    /\ od' = OdSetItem(od, th[t].key, th[t].val, now)
    /\ ret' = Ret("set", th[t].key, Has(od, th[t].key), TRUE, FALSE,
                  th[t].val, <<>>, <<>>)
    /\ lastSet' = Entry(th[t].key, th[t].val, now)
    /\ lock' = Free
    /\ th' = [th EXCEPT ![t] = Local("idle")]
    /\ UNCHANGED <<now, max_len, max_age, built, fk>>

\* d.get(k), d.ttl(k), d.pop(k): with self.lock
Acquire(t, op, k) ==
    /\ Ready(t) /\ fk = <<>>
    /\ lock = Free
    /\ lock' = t
    /\ th' = [th EXCEPT ![t] = Call("locked", op, k, NoneVal)]
    /\ UNCHANGED <<od, now, max_len, max_age, ret, lastSet, built, fk>>

GetBody(t, default) ==
    /\ th[t].pc = "locked" /\ th[t].op = "get"
    /\ LET k == th[t].key
           g == GetFn(od, k, default, now)
       IN  /\ od' = g.d
           /\ ret' = Ret("get", k, Has(od, k), g.found, FALSE, g.val, <<>>,
                         Gone(od, g.d))
    /\ lock' = Free
    /\ th' = [th EXCEPT ![t] = Local("idle")]
    /\ UNCHANGED <<now, max_len, max_age, lastSet, built, fk>>

TtlBody(t) ==
    /\ th[t].pc = "locked" /\ th[t].op = "ttl"
    /\ LET k == th[t].key
           r == TtlFn(od, k, now)
       IN  /\ od' = r.d
           /\ ret' = Ret("ttl", k, Has(od, k), r.hasTtl, FALSE, r.ttl, <<>>,
                         Gone(od, r.d))
    /\ lock' = Free
    /\ th' = [th EXCEPT ![t] = Local("idle")]
    /\ UNCHANGED <<now, max_len, max_age, lastSet, built, fk>>

PopBody(t, default) ==
    /\ th[t].pc = "locked" /\ th[t].op = "pop"
    /\ LET k == th[t].key
           r == PopFn(od, k, default)
       IN  /\ od' = r.d
           /\ ret' = Ret("pop", k, Has(od, k), Has(od, k), FALSE, r.val, <<>>,
                         Gone(od, r.d))
    /\ lastSet' = NoSet
    /\ lock' = Free
    /\ th' = [th EXCEPT ![t] = Local("idle")]
    /\ UNCHANGED <<now, max_len, max_age, built, fk>>

\* k in d, no lock: item = OrderedDict.__getitem__(self, key) and the
\* comparison of its age with max_age; an expired item is deleted next
ContainsRead(t, k) ==
    /\ Ready(t) /\ fk = <<>>
    /\ IF Has(od, k) /\ ~Fresh(now - Item(od, k).ts)
       THEN /\ th' = [th EXCEPT ![t] = Call("contains_del", "contains", k,
                                            NoneVal)]
            /\ ret' = ret
       ELSE /\ th' = [th EXCEPT ![t] = Local("idle")]
            /\ ret' = Ret("contains", k, Has(od, k), Has(od, k), FALSE,
                          NoneVal, <<>>, <<>>)
    /\ UNCHANGED <<od, now, max_len, max_age, lastSet, built, lock, fk>>

\* del self[key] of __contains__ (a KeyError is passed over), return False
ContainsDel(t) ==
    /\ th[t].pc = "contains_del"
    /\ LET k == th[t].key
           d == IF Has(od, k) THEN DelItem(od, k) ELSE od
       IN  /\ od' = d
           /\ ret' = Ret("contains", k, TRUE, FALSE, FALSE, NoneVal, <<>>,
                         Gone(od, d))
    /\ th' = [th EXCEPT ![t] = Local("idle")]
    /\ UNCHANGED <<now, max_len, max_age, lastSet, built, lock, fk>>

\* items() and values(): for key in self._safe_keys(), the list of the keys
ItemsStart(t, op) ==
    /\ Ready(t) /\ fk = <<>>
    /\ th' = [th EXCEPT ![t] = [Call("items_loop", op, "", NoneVal)
                                 EXCEPT !.snap = KeysOf(od)]]
    /\ UNCHANGED <<od, now, max_len, max_age, ret, lastSet, built, lock, fk>>

\* self[key] takes the lock
ItemsAcquire(t) ==
    /\ th[t].pc = "items_loop"
    /\ th[t].snap # <<>>
    /\ lock = Free
    /\ lock' = t
    /\ th' = [th EXCEPT ![t].pc = "items_get"]
    /\ UNCHANGED <<od, now, max_len, max_age, ret, lastSet, built, fk>>

\* a pair that is in the result although __getitem__ raised KeyError
ItemsStepKeepsExpired(d, k, out, op, t) ==
    LET g == GetItem(d, k, t)
    IN  [d |-> g.d,
         out |-> IF Has(d, k)
                 THEN Append(out, IF op = "items" THEN <<k, Item(d, k).val>>
                                                  ELSE Item(d, k).val)
                 ELSE out]

\* try: r.append((key, self[key])) (values: r.append(self[key]))
\* except KeyError: pass
ItemsStep(d, k, out, op, t) ==
    LET g == GetItem(d, k, t)
    IN  [d |-> g.d,
         out |-> IF g.raised THEN out
                 ELSE Append(out, IF op = "items" THEN <<k, g.val>>
                                                  ELSE g.val)]

ItemsGet(t) ==
    /\ th[t].pc = "items_get"
    /\ LET r == ItemsStep(od, Head(th[t].snap), th[t].out, th[t].op, now)
       IN  /\ od' = r.d
           /\ th' = [th EXCEPT ![t].pc = "items_loop",
                               ![t].snap = Tail(@),
                               ![t].out = r.out]
    /\ lock' = Free
    /\ UNCHANGED <<now, max_len, max_age, ret, lastSet, built, fk>>

\* return r
ItemsReturn(t) ==
    /\ th[t].pc = "items_loop"
    /\ th[t].snap = <<>>
    /\ ret' = Ret(th[t].op, "", FALSE, TRUE, FALSE, NoneVal, th[t].out, <<>>)
    /\ th' = [th EXCEPT ![t] = Local("idle")]
    /\ UNCHANGED <<od, now, max_len, max_age, lastSet, built, lock, fk>>

\* the map the threads share
ConcConfigs == { <<Limit(1), 1>> }

ConcBatches == { << <<"a", 1>> >> }

InitConc ==
    /\ now = 0
    /\ \E c \in ConcConfigs : max_len = c[1] /\ max_age = c[2]
    /\ \E batch \in ConcBatches :
          /\ od = InitLoop(InitArgs(batch, max_len), <<>>, 0)
          /\ ret = Ret("init", "", TRUE, TRUE, FALSE, NoneVal, batch, <<>>)
    /\ built = Built("init", 3, ArgOf(max_len), IntArg(max_age), "ok")
    /\ th = [t \in Threads |-> Local("idle")]
    /\ lock = Free
    /\ fk = <<>>
    /\ lastSet = NoSet

\* thread 1 calls __setitem__, pop and __contains__, thread 2 calls get,
\* ttl, items, values and __contains__
Writers == {1}

Readers == {2}

NextConc ==
    \/ TickC
    \/ \E t \in Writers, k \in CKeys, v \in CValues : SetAcquire(t, k, v)
    \/ \E t \in Threads : SetEvict(t)
    \/ \E t \in Threads : SetPop(t)
    \/ \E t \in Threads : SetStore(t)
    \/ \E t \in Readers, k \in CKeys : Acquire(t, "get", k)
    \/ \E t \in Readers, k \in CKeys : Acquire(t, "ttl", k)
    \/ \E t \in Writers, k \in CKeys : Acquire(t, "pop", k)
    \/ \E t \in Threads, default \in Defaults : GetBody(t, default)
    \/ \E t \in Threads : TtlBody(t)
    \/ \E t \in Threads, default \in Defaults : PopBody(t, default)
    \/ \E t \in Threads, k \in CKeys : ContainsRead(t, k)
    \/ \E t \in Threads : ContainsDel(t)
    \/ \E t \in Readers : ItemsStart(t, "items")
    \/ \E t \in Readers : ItemsStart(t, "values")
    \/ \E t \in Threads : ItemsAcquire(t)
    \/ \E t \in Threads : ItemsGet(t)
    \/ \E t \in Threads : ItemsReturn(t)

SpecConc == InitConc /\ [][NextConc]_vars

----------------------------------------------------------------------------
(* One caller of a map built with any arguments *)

ViewOps == {"viewitems", "viewkeys", "viewvalues"}

\* viewitems(), viewkeys(), viewvalues(): raise NotImplementedError()
View(t, op) ==
    /\ Ready(t) /\ fk = <<>>
    /\ op \in ViewOps
    /\ ret' = RetErr(Ret(op, "", FALSE, FALSE, TRUE, NoneVal, <<>>, <<>>),
                     "NotImplementedError")
    /\ UNCHANGED <<od, now, max_len, max_age, lastSet, built, th, lock, fk>>

\* list(d.iteritems()) and list(d.itervalues()) of a caller in no other call
IterItemsC(t) == Ready(t) /\ fk = <<>> /\ IterItems

IterValuesC(t) == Ready(t) /\ fk = <<>> /\ IterValues

NextBuild ==
    \/ TickC
    \/ \E k \in CKeys, v \in CValues : SetAcquire(1, k, v)
    \/ FromKeysSet(1)
    \/ SetEvict(1)
    \/ SetPop(1)
    \/ SetStore(1)
    \/ \E k \in CKeys : Acquire(1, "get", k)
    \/ \E default \in Defaults : GetBody(1, default)
    \/ \E op \in ViewOps : View(1, op)
    \/ IterItemsC(1)
    \/ IterValuesC(1)

SpecBuild == InitBuild /\ [][NextBuild]_vars

----------------------------------------------------------------------------
(* The claims.  In an action formula the unprimed od is the mapping when   *)
(* the call starts and ret' what the call returns; the clock does not move *)
(* during a call.                                                          *)

\* expired: now - created_at >= max_age
IsExpired(e) == now - e.ts >= max_age

IsLive(d, k) == Has(d, k) /\ ~IsExpired(Item(d, k))

LiveEntries(d) == SelectSeq(d, LAMBDA e : ~IsExpired(e))

Pairs(d) == [i \in 1..Len(d) |-> <<d[i].key, d[i].val>>]

Vals(d) == [i \in 1..Len(d) |-> d[i].val]

IsSuffix(s, d) == Len(s) <= Len(d) /\ s = SubSeq(d, Len(d) - Len(s) + 1, Len(d))

Others(d, k) == SelectSeq(d, LAMBDA e : e.key # k)

\* C1: with a finite max_len, the number of entries physically present
\* when a Set returns is at most max_len
C1_SizeAtMostMaxLen ==
    (ret.op = "set" /\ max_len # NoLimit) => Len(od) <= max_len[1]

\* C2: after Set(k, v) at time t with no Set or Remove since, a Get(k) at
\* a time in [t, t + max_age) returns v and a Get(k) at a time >= t + max_age
\* returns not-found (always so when max_age = 0), whatever reads came between
C2_AgeInvariant ==
    (ret.op = "get" /\ lastSet # NoSet /\ ret.key = lastSet.key) =>
        IF now < lastSet.ts + max_age
        THEN ret.ok /\ ret.val = lastSet.val
        ELSE ~ret.ok /\ ret.val \in Defaults

\* a Get that returns the value set at an earlier clock value
C2_LaterGetHits ==
    /\ ret.op = "get"
    /\ lastSet # NoSet
    /\ ret.key = lastSet.key
    /\ now > lastSet.ts
    /\ ret.ok

\* C3: a Set on a key that is already present replaces the value, resets
\* the timestamp and moves the key to the newest position
C3_RefreshMovesToNewest ==
    (ret.op = "set" /\ ret.had) => od[Len(od)] = Entry(ret.key, ret.val, now)

\* C4: the entries a Set removes for capacity are those at the oldest
\* positions of the order when the call starts, whether they or any other
\* entry are expired or not, and Get, Contains and TimeToLive on a live key
\* change neither the order nor the timestamps
C4_EvictsOldestPosition ==
    [][ /\ ret'.op = "set" =>
            /\ ret'.removed = SubSeq(KeysOf(od), 1, Len(ret'.removed))
            /\ IsSuffix(Others(od', ret'.key), Others(od, ret'.key))
        /\ (ret'.op \in {"get", "contains", "ttl"} /\ IsLive(od, ret'.key)) =>
            od' = od
      ]_vars

\* a Set evicted the oldest position while an expired entry stayed in place
C4_EvictedWhileExpiredStays ==
    /\ ret.op = "set"
    /\ ret.removed # <<>>
    /\ max_age > 0
    /\ \E i \in 1..Len(od) : IsExpired(od[i])

C6_TtlForEveryLiveAge ==
    [][ ret'.op = "ttl" =>
            IF IsLive(od, ret'.key) /\ max_age - (now - Item(od, ret'.key).ts) > 0
            THEN ret'.ok /\ ret'.val = max_age - (now - Item(od, ret'.key).ts)
            ELSE ~ret'.ok
      ]_vars

\* C7: Contains(k) is true exactly when k is present and now - created_at is
\* less than max_age; an expired key is absent afterwards; a live or absent
\* key leaves the map unchanged; nothing is raised
C7_ContainsContract ==
    [][ ret'.op = "contains" =>
            LET k == ret'.key
            IN  /\ ret'.ok <=> (Has(od, k) /\ now - Item(od, k).ts < max_age)
                /\ (Has(od, k) /\ IsExpired(Item(od, k))) =>
                       (~ret'.ok /\ od' = Others(od, k))
                /\ (~Has(od, k) \/ IsLive(od, k)) => od' = od
                /\ ~ret'.raised
      ]_vars

\* a Contains on an expired key returned false and removed the key
C7_ExpiredKeyRemoved ==
    /\ ret.op = "contains"
    /\ ret.had
    /\ ~ret.ok
    /\ ret.removed = <<ret.key>>
    /\ ~Has(od, ret.key)

\* C8: Get(k) on an absent or expired key returns the caller's default and
\* raises nothing; on an expired key it removes the entry; a Get that
\* follows a not-found Get of the same key is not-found again and leaves the
\* map unchanged
C8_IdempotentExpiry ==
    [][ ret'.op = "get" =>
            \A k \in {ret'.key}, d \in Defaults : Get(k, d) =>
                /\ ~IsLive(od, k) =>
                       /\ ~ret'.ok
                       /\ ret'.val = d
                       /\ ~ret'.raised
                       /\ od' = Others(od, k)
                /\ (ret.op = "get" /\ ret.key = k /\ ~ret.ok) =>
                       (~ret'.ok /\ ret'.val = d /\ od' = od)
      ]_vars

\* the first Get after expiry: not-found, and the entry is removed
C8_FirstGetAfterExpiry ==
    /\ ret.op = "get"
    /\ ret.had
    /\ ~ret.ok
    /\ max_age > 0
    /\ ret.val \in Defaults
    /\ ~Has(od, ret.key)

\* C9: Entries() and Values() return, in map order, exactly the pairs
\* (values) of the entries not expired at call time, raise nothing, and
\* leave no expired entry in the map
C9_EnumerationSkipsExpired ==
    [][ /\ ret'.op = "items" =>
            /\ ret'.out = Pairs(LiveEntries(od))
            /\ od' = LiveEntries(od)
            /\ ~ret'.raised
        /\ ret'.op = "values" =>
            /\ ret'.out = Vals(LiveEntries(od))
            /\ od' = LiveEntries(od)
            /\ ~ret'.raised
      ]_vars

\* Entries() on a mix: some entries returned, some expired ones removed
C9_MixOfFreshAndExpired ==
    /\ ret.op = "items"
    /\ ret.out # <<>>
    /\ ret.removed # <<>>
    /\ Len(od) = Len(ret.out)

\* C10: raw iteration (iterkeys, iteritems, itervalues) yields every
\* physically present entry, stale ones included, raises nothing and leaves
\* the map unchanged
C10_RawIterationIsRaw ==
    [][ ret'.op \in {"iteritems", "itervalues", "iterkeys"} =>
            /\ ~ret'.raised
            /\ od' = od
            /\ ret'.out = CASE ret'.op = "iteritems" -> Pairs(od)
                            [] ret'.op = "itervalues" -> Vals(od)
                            [] ret'.op = "iterkeys" -> KeysOf(od)
      ]_vars

\* C11: every Set on a map the constructor accepted terminates.  Each pass
\* of the eviction loop of a Set that terminates takes an entry out, so no
\* Set makes more passes than the map had entries when the Set took the lock
C11_SetTerminates ==
    \A t \in Threads :
        th[t].op = "set" => th[t].iters <= th[t].len0

\* C12: no lost update.  Once the calls of all threads have returned, and
\* until max_age has elapsed since the last Set(k, v), k is present with the
\* value and the timestamp that Set stored: no lazy removal of an expired
\* entry by a concurrent Get, Contains, TimeToLive, Entries or Values takes
\* out the entry the Set wrote
C12_NoLostUpdate ==
    ( /\ \A t \in Threads : th[t].pc = "idle"
      /\ lastSet # NoSet
      /\ now - lastSet.ts < max_age )
    => Has(od, lastSet.key) /\ Item(od, lastSet.key) = lastSet

\* C13: FromKeys(keys, value, max_age, max_len) with valid limits returns
\* without raising, and once it has returned the map holds the keys with
\* that value: all of them in iteration order when max_len is unbounded or
\* at least their number, else only the last ones
C13_FromKeysBuilds ==
    ( /\ built.how = "fromkeys"
      /\ built.ma.kind = "int" /\ built.ma.n >= 0
      /\ built.ml.kind = "none" \/ (built.ml.kind = "int" /\ built.ml.n >= 0) )
    => /\ built.err = "ok"
       /\ ( /\ fk = <<>> /\ th[1].pc = "idle"
            /\ ret.op = "set" /\ ret.val = FromKeysValue
            /\ ret.key = FromKeysKeys[Len(FromKeysKeys)] )
          => /\ IsSuffix(KeysOf(od), FromKeysKeys)
             /\ \A i \in 1..Len(od) : od[i].val = FromKeysValue
             /\ max_len = NoLimit => KeysOf(od) = FromKeysKeys

\* C14: a construction with a batch of more than max_len pairs, max_len a
\* non-negative integer, returns a map that holds exactly the last max_len
\* pairs of the batch, in batch order, each with the construction time as
\* its timestamp, so at most max_len entries
C14_ConstructionKeepsLast ==
    ( /\ built.how = "init" /\ ret.op = "init" /\ ret.had
      /\ built.ma.kind = "int" /\ built.ma.n >= 0
      /\ built.ml.kind = "int" /\ built.ml.n >= 0
      /\ Len(ret.out) > built.ml.n )
    => /\ built.err = "ok"
       /\ Pairs(od) = SubSeq(ret.out, Len(ret.out) - built.ml.n + 1,
                             Len(ret.out))
       /\ \A i \in 1..Len(od) : od[i].ts = now
       /\ Len(od) <= built.ml.n

\* C15: a construction with a max_age that is no number or is negative, or
\* with a max_len that is no integer or is negative, fails with the
\* precondition failure (the assert) and yields no map; every map that
\* exists has max_age >= 0 and max_len unbounded or a non-negative integer
C15_InvalidConfigRejected ==
    /\ ( \/ built.ma.kind # "int" \/ built.ma.n < 0
         \/ built.ml.kind = "other"
         \/ (built.ml.kind = "int" /\ built.ml.n < 0) )
       => built.err = "AssertionError"
    /\ built.err = "ok"
       => /\ max_age >= 0
          /\ max_len = NoLimit \/ max_len[1] >= 0

\* C16: viewitems, viewkeys and viewvalues fail with the not-implemented
\* error in every state and leave the entries, their order and their
\* timestamps as they were; no other call of the interface raises an error
\* to its caller (ret' is what a call returned when the step leaves no
\* thread inside a call)
C16_OnlyViewsRaise ==
    [][ (\A t \in Threads : th'[t].pc \in {"idle", "off"}) =>
            /\ ret'.op \in ViewOps
               => /\ ret'.raised /\ ret'.err = "NotImplementedError"
                  /\ od' = od
            /\ ret'.raised => ret'.op \in ViewOps
      ]_vars

\* C17: locking discipline.  The thread whose step changes the mapping
\* (insert, overwrite, eviction, removal, lazy removal of an expired entry)
\* holds the lock, and so does the thread whose step compares an entry's
\* timestamp with the clock: the body of Get, TimeToLive and of the Get of
\* Entries / Values, and the age test of Contains, whether it finds the
\* entry expired (the thread goes on to delete it) or fresh (the call
\* returns True at once)
C17_LockingDiscipline ==
    [][ /\ \A t \in Threads :
              (th'[t] # th[t] /\ od' # od) => lock = t
        /\ \A t \in Threads :
              ( /\ th'[t] # th[t]
                /\ \/ th[t].pc \in {"locked", "items_get"}
                   \/ th'[t].pc = "contains_del" )
              => lock = t
        /\ (th' = th /\ ret'.op = "contains" /\ ret'.had)
              => \E t \in Threads : lock = t /\ th[t].op = "contains"
      ]_vars

\* C18: Entries() and Values() run next to the Set, Remove and Contains
\* calls of another thread.  The key list is the keys present when the call
\* starts and only loses its head, one key for each locked Get; that Get
\* appends the key's value as stored at that moment if the entry is live
\* then, and appends nothing if the key is gone or expired; nothing else
\* changes the result, and the call returns it without raising
C18_EnumerationBesideWriters ==
    [][ /\ ret'.op \in {"items", "values"} => ~ret'.raised
        /\ \A t \in Threads :
              /\ (th[t].pc = "idle" /\ th'[t].pc = "items_loop")
                 => th'[t].snap = KeysOf(od) /\ th'[t].out = <<>>
              /\ (th[t].pc = "items_get" /\ th'[t].pc = "items_loop")
                 => LET k == Head(th[t].snap)
                    IN  /\ lock = t
                        /\ th'[t].snap = Tail(th[t].snap)
                        /\ th'[t].out =
                              IF IsLive(od, k)
                              THEN Append(th[t].out,
                                          IF th[t].op = "items"
                                          THEN <<k, Item(od, k).val>>
                                          ELSE Item(od, k).val)
                              ELSE th[t].out
              /\ (th[t].pc = "items_loop" /\ th'[t].pc \in {"items_loop", "items_get"})
                 => th'[t].snap = th[t].snap /\ th'[t].out = th[t].out
              /\ (th[t].pc = "items_loop" /\ th'[t].pc = "idle")
                 => /\ th[t].snap = <<>>
                    /\ ret'.op = th[t].op /\ ret'.out = th[t].out
      ]_vars

\* C18 witness: in the middle of an enumeration that has already returned
\* a pair, the next key of the key list has been removed by the other thread
C18_KeyRemovedMidEnumeration ==
    \E t \in Threads :
        /\ th[t].op \in {"items", "values"}
        /\ th[t].pc = "items_loop"
        /\ th[t].out # <<>>
        /\ th[t].snap # <<>>
        /\ ~Has(od, Head(th[t].snap))

====
